---------------------------- MODULE Spec2Model ----------------------------
(***************************************************************************)
(* A model of emulator-hal: the BusAccess capability with its derived      *)
(* typed accessors, the reference MemoryBlock device, the address/error    *)
(* translating adapters, the composite buses of the step tests and the     *)
(* accumulator Cpu that is driven through Step.                            *)
(*                                                                         *)
(* Representation of integers.  A byte is a number in 0..255.  An          *)
(* unsigned value of 16, 32 or 64 bits is the sequence of its 16-bit limbs,*)
(* most significant limb first (u16: one limb, u32: two, u64: four), so    *)
(* that every value of the type is representable and the byte conversions  *)
(* do real arithmetic.  A u8 is a plain number.  Addresses and lengths are *)
(* plain integers; an address of a signed address type may be negative.    *)
(***************************************************************************)
EXTENDS Integers, Sequences, FiniteSets, TLC

---------------------------------------------------------------------------
(* Bounds of the model *)

\* length of the MemoryBlock under test (the tests use 1024)
MemLen == 9
\* number of bus operations in one run of the memory and adapter scenarios
MaxOps == 2
\* longest program (count of non-zero values) of the bounded accumulator runs
MaxProg == 2

---------------------------------------------------------------------------
(* Program constants *)

\* Duration::START, the epoch of the Duration instant
START == 0
\* the Cpu's step returns now + 100 ns
StepNanos == 100
\* the test memories are vec![0; 1024]
TestMemLen == 1024
\* the tests place the program at 0x100
Location == 256
\* FixedBus / DynamicBus: the memory is mapped at 0..0x1_0000
MemRangeEnd == 65536
\* DynamicBus: the output is mapped at 0x2_0000..0x2_0010
OutRangeStart == 131072
OutRangeEnd == 131088
\* the test program holds the values 1..100
TestCount == 100

Byte == 0..255
LimbBase == 65536

---------------------------------------------------------------------------
(* Sequences of bytes *)

\* [0; n]
Zeros(n) == [i \in 1..n |-> 0]

\* s[from..to] with 0-based, end-exclusive indices, as a Rust slice
Slice(s, from, to) == SubSeq(s, from + 1, to)

\* s with s[at..at+len(d)] replaced by d (copy_from_slice into a sub-slice)
Splice(s, at, d) ==
    SubSeq(s, 1, at) \o d \o SubSeq(s, at + Len(d) + 1, Len(s))

\* a slice index a..b of a sequence of length n is valid iff a <= b <= n
SliceOk(n, a, b) == a >= 0 /\ a <= b /\ b <= n

---------------------------------------------------------------------------
(* uN::to_be_bytes, to_le_bytes, from_be_bytes, from_le_bytes of core, on  *)
(* limb sequences                                                          *)

to_be_bytes(v) ==
    [i \in 1..(2 * Len(v)) |->
        IF i % 2 = 1 THEN v[(i + 1) \div 2] \div 256 ELSE v[i \div 2] % 256]

to_le_bytes(v) ==
    [i \in 1..(2 * Len(v)) |->
        IF i % 2 = 1 THEN v[Len(v) - ((i + 1) \div 2) + 1] % 256
                     ELSE v[Len(v) - (i \div 2) + 1] \div 256]

from_be_bytes(b) ==
    [k \in 1..(Len(b) \div 2) |-> b[2 * k - 1] * 256 + b[2 * k]]

from_le_bytes(b) ==
    [k \in 1..(Len(b) \div 2) |->
        b[Len(b) - 2 * k + 2] * 256 + b[Len(b) - 2 * k + 1]]

\* the byte of weight 256^i (i = 0 is the least significant) of a value
ByteOf(v, i) ==
    LET limb == v[Len(v) - (i \div 2)]
    IN IF i % 2 = 0 THEN limb % 256 ELSE limb \div 256

---------------------------------------------------------------------------
(* Results of a bus call.  st is "Ok", "Err" or "Panic" (the call unwound: *)
(* a slice index out of range or a checked arithmetic overflow); n is the  *)
(* transferred count of an Ok; err the error of an Err; buf the caller's   *)
(* buffer after the call; dev the device after the call; log the calls     *)
(* that were made, in order.                                               *)

NoErr == "none"

Ok(n, buf, dev, log) ==
    [st |-> "Ok", n |-> n, err |-> NoErr, buf |-> buf, dev |-> dev, log |-> log]

Err(e, buf, dev, log) ==
    [st |-> "Err", n |-> 0, err |-> e, buf |-> buf, dev |-> dev, log |-> log]

Panic(buf, dev, log) ==
    [st |-> "Panic", n |-> 0, err |-> NoErr, buf |-> buf, dev |-> dev, log |-> log]

\* the entries of a call log: a read or write that reached device `who`, an
\* address translation, an error mapping
Call(ev, who, now, addr, data) ==
    [ev |-> ev, who |-> who, now |-> now, addr |-> addr, data |-> data]

Translated(who, from, to) == [ev |-> "translate", who |-> who, from |-> from, to |-> to]

Mapped(who, from, to) == [ev |-> "map_err", who |-> who, from |-> from, to |-> to]

\* what the inner call returned to adapter `who`
Returned(who, r) == [ev |-> "return", who |-> who, st |-> r.st, n |-> r.n, err |-> r.err]

\* the result r of an inner call, as received by adapter `who`
Received(r, who) ==
    IF r.st = "Panic" THEN r ELSE [r EXCEPT !.log = Append(r.log, Returned(who, r))]

---------------------------------------------------------------------------
(* MemoryBlock, the reference memory device (emulator-hal-memory)          *)

\* MemoryBlock::from(contents)
MemoryBlock_from(contents) ==
    [kind |-> "MemoryBlock", read_only |-> FALSE, contents |-> contents]

\* MemoryBlock::read_only(&mut self)
MemoryBlock_read_only(self) == [self EXCEPT !.read_only = TRUE]

\* addr.try_into(): Address -> usize succeeds exactly for the addresses
\* that are not negative (the model's addresses are far below usize::MAX)
TryIntoUsizeOk(addr) == addr >= 0

MemoryBlock_read(self, now, addr, data) ==
    LET log == <<Call("read", "MemoryBlock", now, addr, data)>>
    IN IF ~TryIntoUsizeOk(addr)
       THEN Err("UnmappedAddress", data, self, log)
       ELSE IF ~SliceOk(Len(self.contents), addr, addr + Len(data))
       THEN Panic(data, self, log)
       ELSE Ok(Len(data), Slice(self.contents, addr, addr + Len(data)), self, log)

\* a write that keeps nothing of the storage after the bytes it stored
MemoryBlock_write_truncating(self, now, addr, data) ==
    LET log == <<Call("write", "MemoryBlock", now, addr, data)>>
    IN IF ~TryIntoUsizeOk(addr)
       THEN Err("UnmappedAddress", data, self, log)
       ELSE IF ~SliceOk(Len(self.contents), addr, addr + Len(data))
       THEN Panic(data, self, log)
       ELSE Ok(Len(data), data,
               [self EXCEPT !.contents = SubSeq(self.contents, 1, addr) \o data], log)

\* a variant of write that converts the address with a cast, as the test
\* memories do, and so has no error path
MemoryBlock_write_cast(self, now, addr, data) ==
    LET log == <<Call("write", "MemoryBlock", now, addr, data)>>
    IN IF ~SliceOk(Len(self.contents), addr, addr + Len(data))
       THEN Panic(data, self, log)
       ELSE Ok(Len(data), data,
               [self EXCEPT !.contents = Splice(self.contents, addr, data)], log)

MemoryBlock_write(self, now, addr, data) ==
    LET log == <<Call("write", "MemoryBlock", now, addr, data)>>
    IN \* if self.read_only { /* the early return is commented out */ }
       IF ~TryIntoUsizeOk(addr)
       THEN Err("UnmappedAddress", data, self, log)
       ELSE IF ~SliceOk(Len(self.contents), addr, addr + Len(data))
       THEN Panic(data, self, log)
       ELSE Ok(Len(data), data,
               [self EXCEPT !.contents = Splice(self.contents, addr, data)], log)

---------------------------------------------------------------------------
(* The devices of the tests: Memory(Vec<u8>) and Output()                  *)

Memory_new(contents) == [kind |-> "Memory", contents |-> contents]

\* let addr = addr as usize; data.copy_from_slice(&self.0[addr..addr + len])
Memory_read(self, now, addr, data) ==
    LET log == <<Call("read", "Memory", now, addr, data)>>
    IN IF ~SliceOk(Len(self.contents), addr, addr + Len(data))
       THEN Panic(data, self, log)
       ELSE Ok(Len(data), Slice(self.contents, addr, addr + Len(data)), self, log)

Memory_write(self, now, addr, data) ==
    LET log == <<Call("write", "Memory", now, addr, data)>>
    IN IF ~SliceOk(Len(self.contents), addr, addr + Len(data))
       THEN Panic(data, self, log)
       ELSE Ok(Len(data), data,
               [self EXCEPT !.contents = Splice(self.contents, addr, data)], log)

Output_new == [kind |-> "Output"]

\* the number of bytes of the UTF-8 sequence that starts d, 0 if none does
Utf8Step(d) ==
    LET n == Len(d)
        c(i, lo, hi) == n >= i /\ d[i] >= lo /\ d[i] <= hi
    IN IF n = 0 THEN 0
       ELSE IF d[1] <= 127 THEN 1
       ELSE IF c(1, 194, 223) /\ c(2, 128, 191) THEN 2
       ELSE IF c(1, 224, 224) /\ c(2, 160, 191) /\ c(3, 128, 191) THEN 3
       ELSE IF c(1, 225, 236) /\ c(2, 128, 191) /\ c(3, 128, 191) THEN 3
       ELSE IF c(1, 237, 237) /\ c(2, 128, 159) /\ c(3, 128, 191) THEN 3
       ELSE IF c(1, 238, 239) /\ c(2, 128, 191) /\ c(3, 128, 191) THEN 3
       ELSE IF c(1, 240, 240) /\ c(2, 144, 191) /\ c(3, 128, 191) /\ c(4, 128, 191) THEN 4
       ELSE IF c(1, 241, 243) /\ c(2, 128, 191) /\ c(3, 128, 191) /\ c(4, 128, 191) THEN 4
       ELSE IF c(1, 244, 244) /\ c(2, 128, 143) /\ c(3, 128, 191) /\ c(4, 128, 191) THEN 4
       ELSE 0

RECURSIVE IsUtf8(_)
\* str::from_utf8(data).is_ok()
IsUtf8(d) ==
    IF Len(d) = 0 THEN TRUE
    ELSE LET k == Utf8Step(d)
         IN k > 0 /\ IsUtf8(SubSeq(d, k + 1, Len(d)))

Output_read(self, now, addr, data) ==
    Ok(0, data, self, <<Call("read", "Output", now, addr, data)>>)

Output_write(self, now, addr, data) ==
    LET log == <<Call("write", "Output", now, addr, data)>>
    IN IF ~IsUtf8(data) THEN Err("Utf8Error", data, self, log)
       ELSE Ok(Len(data), data, self, log)

---------------------------------------------------------------------------
(* BusAccess: the dispatch of read and write on the kind of the device     *)
(* (the trait's implementations)                                           *)

RECURSIVE BusAccess_read(_, _, _, _)
RECURSIVE BusAccess_write(_, _, _, _)

---------------------------------------------------------------------------
(* The adapters.  A translation or an error mapping is a function pointer  *)
(* fixed at construction; the model names the functions it uses.           *)

\* FromAddress::from_address of the tests: address as u64
from_address(addr) == addr

\* the address translations: the casts of the tests, a cast to a signed
\* address type, whose results above i8::MAX are negative, its complement
\* |addr| !(addr as i8), and the canonical conversion
Translate(f, addr) ==
    CASE f = "as_u64" -> addr
      [] f = "as_u32" -> (addr % LimbBase) + LimbBase * ((addr \div LimbBase) % LimbBase)
      [] f = "as_u16" -> addr % LimbBase
      [] f = "as_i8"  -> IF addr % 256 < 128 THEN addr % 256 ELSE (addr % 256) - 256
      [] f = "not_i8" -> IF addr % 256 < 128 THEN -1 - (addr % 256) ELSE 255 - (addr % 256)
      [] f = "from_address" -> from_address(addr)

\* the error mappings: |_| Error::BusError (also the From conversion of the
\* adapter tests), and the conversion of a type into itself (From<T> for T)
MapErr(f, e) ==
    CASE f = "BusError" -> "BusError"
      [] f = "Into"     -> e

\* Result::map_err on the result of the inner call
ResultMapErr(r, f, who) ==
    IF r.st = "Err"
    THEN [r EXCEPT !.err = MapErr(f, r.err),
                   !.log = Append(r.log, Mapped(who, r.err, MapErr(f, r.err)))]
    ELSE r

\* bus.rs: BusAdapter { bus, translate, map_err }
BusAdapter_new(bus, translate, map_err) ==
    [kind |-> "BusAdapter", bus |-> bus, translate |-> translate, map_err |-> map_err]

\* a read that hands the outer address to the inner device
BusAdapter_read_untranslated(self, now, addr, data) ==
    LET a == Translate(self.translate, addr)
        r == BusAccess_read(self.bus, now, addr, data)
        m == ResultMapErr(Received(r, "BusAdapter"), self.map_err, "BusAdapter")
    IN [m EXCEPT !.dev = [self EXCEPT !.bus = r.dev],
                 !.log = <<Translated("BusAdapter", addr, a)>> \o m.log]

BusAdapter_read(self, now, addr, data) ==
    LET a == Translate(self.translate, addr)
        r == BusAccess_read(self.bus, now, a, data)
        m == ResultMapErr(Received(r, "BusAdapter"), self.map_err, "BusAdapter")
    IN [m EXCEPT !.dev = [self EXCEPT !.bus = r.dev],
                 !.log = <<Translated("BusAdapter", addr, a)>> \o m.log]

\* a write that hands the outer address to the inner device
BusAdapter_write_untranslated(self, now, addr, data) ==
    LET a == Translate(self.translate, addr)
        r == BusAccess_write(self.bus, now, addr, data)
        m == ResultMapErr(Received(r, "BusAdapter"), self.map_err, "BusAdapter")
    IN [m EXCEPT !.dev = [self EXCEPT !.bus = r.dev],
                 !.log = <<Translated("BusAdapter", addr, a)>> \o m.log]

\* a write that tries the inner device a second time after an error
BusAdapter_write_retry(self, now, addr, data) ==
    LET a == Translate(self.translate, addr)
        r1 == BusAccess_write(self.bus, now, a, data)
        r2 == BusAccess_write(r1.dev, now, a, data)
        r == IF r1.st = "Err" THEN [r2 EXCEPT !.log = r1.log \o r2.log] ELSE r1
        m == ResultMapErr(Received(r, "BusAdapter"), self.map_err, "BusAdapter")
    IN [m EXCEPT !.dev = [self EXCEPT !.bus = r.dev],
                 !.log = <<Translated("BusAdapter", addr, a)>> \o m.log]

BusAdapter_write(self, now, addr, data) ==
    LET a == Translate(self.translate, addr)
        r == BusAccess_write(self.bus, now, a, data)
        m == ResultMapErr(Received(r, "BusAdapter"), self.map_err, "BusAdapter")
    IN [m EXCEPT !.dev = [self EXCEPT !.bus = r.dev],
                 !.log = <<Translated("BusAdapter", addr, a)>> \o m.log]

\* adapter.rs: BusAdapter { inner, translate, error_out: PhantomData<ErrorOut> },
\* the error converted by err.into(); error_out names the From conversion of
\* the type ErrorOut
IntoAdapter_new(inner, translate, error_out) ==
    [kind |-> "IntoAdapter", inner |-> inner, translate |-> translate,
     error_out |-> error_out]

IntoAdapter_read(self, now, addr, data) ==
    LET a == Translate(self.translate, addr)
        r == BusAccess_read(self.inner, now, a, data)
        m == ResultMapErr(Received(r, "IntoAdapter"), self.error_out, "IntoAdapter")
    IN [m EXCEPT !.dev = [self EXCEPT !.inner = r.dev],
                 !.log = <<Translated("IntoAdapter", addr, a)>> \o m.log]

\* a write that reports an inner error as a transfer of zero bytes
IntoAdapter_write_swallow(self, now, addr, data) ==
    LET a == Translate(self.translate, addr)
        r == BusAccess_write(self.inner, now, a, data)
        g == Received(r, "IntoAdapter")
        m == IF g.st = "Err" THEN Ok(0, g.buf, g.dev, g.log) ELSE g
    IN [m EXCEPT !.dev = [self EXCEPT !.inner = r.dev],
                 !.log = <<Translated("IntoAdapter", addr, a)>> \o m.log]

IntoAdapter_write(self, now, addr, data) ==
    LET a == Translate(self.translate, addr)
        r == BusAccess_write(self.inner, now, a, data)
        m == ResultMapErr(Received(r, "IntoAdapter"), self.error_out, "IntoAdapter")
    IN [m EXCEPT !.dev = [self EXCEPT !.inner = r.dev],
                 !.log = <<Translated("IntoAdapter", addr, a)>> \o m.log]

\* adapter.rs: AutoBusAdapter { inner, .., error_out: PhantomData<ErrorOut> }
AutoBusAdapter_new(inner, error_out) ==
    [kind |-> "AutoBusAdapter", inner |-> inner, error_out |-> error_out]

AutoBusAdapter_read(self, now, addr, data) ==
    LET a == from_address(addr)
        r == BusAccess_read(self.inner, now, a, data)
        m == ResultMapErr(Received(r, "AutoBusAdapter"), self.error_out, "AutoBusAdapter")
    IN [m EXCEPT !.dev = [self EXCEPT !.inner = r.dev],
                 !.log = <<Translated("AutoBusAdapter", addr, a)>> \o m.log]

\* a write that converts the address with a narrowing cast in place of the
\* canonical conversion
AutoBusAdapter_write_narrowing(self, now, addr, data) ==
    LET a == Translate("as_i8", addr)
        r == BusAccess_write(self.inner, now, a, data)
        m == ResultMapErr(Received(r, "AutoBusAdapter"), self.error_out, "AutoBusAdapter")
    IN [m EXCEPT !.dev = [self EXCEPT !.inner = r.dev],
                 !.log = <<Translated("AutoBusAdapter", addr, a)>> \o m.log]

AutoBusAdapter_write(self, now, addr, data) ==
    LET a == from_address(addr)
        r == BusAccess_write(self.inner, now, a, data)
        m == ResultMapErr(Received(r, "AutoBusAdapter"), self.error_out, "AutoBusAdapter")
    IN [m EXCEPT !.dev = [self EXCEPT !.inner = r.dev],
                 !.log = <<Translated("AutoBusAdapter", addr, a)>> \o m.log]

---------------------------------------------------------------------------
(* The composite buses of the step tests                                   *)

\* Range<u64>::contains
RangeContains(range, addr) == range[1] <= addr /\ addr < range[2]

FixedBus_new(output, memory) ==
    [kind |-> "FixedBus", output |-> output, memory |-> memory]

FixedBus_read(self, now, addr, data) ==
    IF RangeContains(<<0, MemRangeEnd>>, addr)
    THEN LET r == Memory_read(self.memory, now, Translate("as_u32", addr) % MemRangeEnd, data)
             m == ResultMapErr(r, "BusError", "FixedBus")
         IN [m EXCEPT !.dev = [self EXCEPT !.memory = r.dev]]
    ELSE LET r == Output_read(self.output, now, Translate("as_u16", addr), data)
             m == ResultMapErr(r, "BusError", "FixedBus")
         IN [m EXCEPT !.dev = [self EXCEPT !.output = r.dev]]

FixedBus_write(self, now, addr, data) ==
    IF RangeContains(<<0, MemRangeEnd>>, addr)
    THEN LET r == Memory_write(self.memory, now, Translate("as_u32", addr) % MemRangeEnd, data)
             m == ResultMapErr(r, "BusError", "FixedBus")
         IN [m EXCEPT !.dev = [self EXCEPT !.memory = r.dev]]
    ELSE LET r == Output_write(self.output, now, Translate("as_u16", addr), data)
             m == ResultMapErr(r, "BusError", "FixedBus")
         IN [m EXCEPT !.dev = [self EXCEPT !.output = r.dev]]

\* DynamicBus { devices: Vec<(Range<u64>, Box<dyn BusAccess>)> }
DynamicBus_new(devices) == [kind |-> "DynamicBus", devices |-> devices]

\* the index of the first pair, from i on, whose range contains addr; 0 if none
RECURSIVE FirstMatch(_, _, _)
FirstMatch(devices, addr, i) ==
    IF i > Len(devices) THEN 0
    ELSE IF RangeContains(devices[i].range, addr) THEN i
    ELSE FirstMatch(devices, addr, i + 1)

\* the index of the last pair whose range contains addr; 0 if none
LastMatch(devices, addr) ==
    LET M == {i \in DOMAIN devices : RangeContains(devices[i].range, addr)}
    IN IF M = {} THEN 0 ELSE CHOOSE i \in M : \A j \in M : j <= i

\* a read that lets a later pair shadow an earlier one
DynamicBus_read_last_match(self, now, addr, data) ==
    LET i == LastMatch(self.devices, addr)
    IN IF i = 0 THEN Ok(0, data, self, <<>>)
       ELSE LET r == BusAccess_read(self.devices[i].device, now, addr, data)
                m == ResultMapErr(r, "BusError", "DynamicBus")
            IN [m EXCEPT !.dev = [self EXCEPT !.devices[i].device = r.dev]]

\* a write that reports an address nothing is mapped at as a bus error
DynamicBus_write_unmapped_err(self, now, addr, data) ==
    LET i == FirstMatch(self.devices, addr, 1)
    IN IF i = 0 THEN Err("BusError", data, self, <<>>)
       ELSE LET r == BusAccess_write(self.devices[i].device, now, addr, data)
                m == ResultMapErr(r, "BusError", "DynamicBus")
            IN [m EXCEPT !.dev = [self EXCEPT !.devices[i].device = r.dev]]

DynamicBus_read(self, now, addr, data) ==
    LET i == FirstMatch(self.devices, addr, 1)
    IN IF i = 0 THEN Ok(0, data, self, <<>>)
       ELSE LET r == BusAccess_read(self.devices[i].device, now, addr, data)
                m == ResultMapErr(r, "BusError", "DynamicBus")
            IN [m EXCEPT !.dev = [self EXCEPT !.devices[i].device = r.dev]]

DynamicBus_write(self, now, addr, data) ==
    LET i == FirstMatch(self.devices, addr, 1)
    IN IF i = 0 THEN Ok(0, data, self, <<>>)
       ELSE LET r == BusAccess_write(self.devices[i].device, now, addr, data)
                m == ResultMapErr(r, "BusError", "DynamicBus")
            IN [m EXCEPT !.dev = [self EXCEPT !.devices[i].device = r.dev]]

---------------------------------------------------------------------------

BusAccess_read(dev, now, addr, data) ==
    CASE dev.kind = "MemoryBlock"    -> MemoryBlock_read(dev, now, addr, data)
      [] dev.kind = "Memory"         -> Memory_read(dev, now, addr, data)
      [] dev.kind = "Output"         -> Output_read(dev, now, addr, data)
      [] dev.kind = "BusAdapter"     -> BusAdapter_read(dev, now, addr, data)
      [] dev.kind = "IntoAdapter"    -> IntoAdapter_read(dev, now, addr, data)
      [] dev.kind = "AutoBusAdapter" -> AutoBusAdapter_read(dev, now, addr, data)
      [] dev.kind = "FixedBus"       -> FixedBus_read(dev, now, addr, data)
      [] dev.kind = "DynamicBus"     -> DynamicBus_read(dev, now, addr, data)

BusAccess_write(dev, now, addr, data) ==
    CASE dev.kind = "MemoryBlock"    -> MemoryBlock_write(dev, now, addr, data)
      [] dev.kind = "Memory"         -> Memory_write(dev, now, addr, data)
      [] dev.kind = "Output"         -> Output_write(dev, now, addr, data)
      [] dev.kind = "BusAdapter"     -> BusAdapter_write(dev, now, addr, data)
      [] dev.kind = "IntoAdapter"    -> IntoAdapter_write(dev, now, addr, data)
      [] dev.kind = "AutoBusAdapter" -> AutoBusAdapter_write(dev, now, addr, data)
      [] dev.kind = "FixedBus"       -> FixedBus_write(dev, now, addr, data)
      [] dev.kind = "DynamicBus"     -> DynamicBus_write(dev, now, addr, data)

---------------------------------------------------------------------------
(* The derived typed accessors of BusAccess.  A typed read returns the     *)
(* result of the raw call with the value in val; a typed write returns the *)
(* result of the raw call without its count: self.write(..)?; Ok(()).      *)

\* a typed read that refuses a transfer shorter than its buffer
TypedRead_counted(r, val) ==
    IF r.st = "Ok" /\ r.n < Len(r.buf)
    THEN [st |-> "Err", n |-> 0, err |-> "BusError", buf |-> r.buf, dev |-> r.dev,
          log |-> r.log, val |-> <<>>]
    ELSE [st |-> r.st, n |-> r.n, err |-> r.err, buf |-> r.buf, dev |-> r.dev,
          log |-> r.log, val |-> IF r.st = "Ok" THEN val ELSE <<>>]

\* self.read(now, addr, &mut data)?; Ok(conv(data))
TypedRead(r, val) ==
    [st |-> r.st, n |-> r.n, err |-> r.err, buf |-> r.buf, dev |-> r.dev,
     log |-> r.log, val |-> IF r.st = "Ok" THEN val ELSE <<>>]

\* self.write(now, addr, &data)?; Ok(())
TypedWrite(r) ==
    [st |-> r.st, err |-> r.err, buf |-> r.buf, dev |-> r.dev, log |-> r.log]

read_u8(dev, now, addr) ==
    LET r == BusAccess_read(dev, now, addr, Zeros(1)) IN TypedRead(r, r.buf[1])

read_beu16(dev, now, addr) ==
    LET r == BusAccess_read(dev, now, addr, Zeros(2)) IN TypedRead(r, from_be_bytes(r.buf))

read_leu16(dev, now, addr) ==
    LET r == BusAccess_read(dev, now, addr, Zeros(2)) IN TypedRead(r, from_le_bytes(r.buf))

read_u16(dev, order, now, addr) ==
    CASE order = "Little" -> read_leu16(dev, now, addr)
      [] order = "Big"    -> read_beu16(dev, now, addr)

read_beu32(dev, now, addr) ==
    LET r == BusAccess_read(dev, now, addr, Zeros(4)) IN TypedRead(r, from_be_bytes(r.buf))

read_leu32(dev, now, addr) ==
    LET r == BusAccess_read(dev, now, addr, Zeros(4)) IN TypedRead(r, from_le_bytes(r.buf))

\* read_u32 with the arms of the match exchanged
read_u32_swapped(dev, order, now, addr) ==
    CASE order = "Little" -> read_beu32(dev, now, addr)
      [] order = "Big"    -> read_leu32(dev, now, addr)

read_u32(dev, order, now, addr) ==
    CASE order = "Little" -> read_leu32(dev, now, addr)
      [] order = "Big"    -> read_beu32(dev, now, addr)

read_beu64(dev, now, addr) ==
    LET r == BusAccess_read(dev, now, addr, Zeros(8)) IN TypedRead(r, from_be_bytes(r.buf))

read_leu64(dev, now, addr) ==
    LET r == BusAccess_read(dev, now, addr, Zeros(8)) IN TypedRead(r, from_le_bytes(r.buf))

read_u64(dev, order, now, addr) ==
    CASE order = "Little" -> read_leu64(dev, now, addr)
      [] order = "Big"    -> read_beu64(dev, now, addr)

\* write_u8 that drops the result of the raw write: let _ = self.write(..); Ok(())
write_u8_unchecked(dev, now, addr, value) ==
    LET r == BusAccess_write(dev, now, addr, <<value>>)
    IN TypedWrite(IF r.st = "Err" THEN Ok(0, r.buf, r.dev, r.log) ELSE r)

write_u8(dev, now, addr, value) == TypedWrite(BusAccess_write(dev, now, addr, <<value>>))

write_beu16(dev, now, addr, value) == TypedWrite(BusAccess_write(dev, now, addr, to_be_bytes(value)))

write_leu16(dev, now, addr, value) == TypedWrite(BusAccess_write(dev, now, addr, to_le_bytes(value)))

write_u16(dev, order, now, addr, value) ==
    CASE order = "Little" -> write_leu16(dev, now, addr, value)
      [] order = "Big"    -> write_beu16(dev, now, addr, value)

\* write_beu32 with the byte order of write_leu32
write_beu32_as_le(dev, now, addr, value) ==
    TypedWrite(BusAccess_write(dev, now, addr, to_le_bytes(value)))

write_beu32(dev, now, addr, value) == TypedWrite(BusAccess_write(dev, now, addr, to_be_bytes(value)))

\* write_leu32 with the byte order of write_beu32
write_leu32_as_be(dev, now, addr, value) ==
    TypedWrite(BusAccess_write(dev, now, addr, to_be_bytes(value)))

write_leu32(dev, now, addr, value) == TypedWrite(BusAccess_write(dev, now, addr, to_le_bytes(value)))

write_u32(dev, order, now, addr, value) ==
    CASE order = "Little" -> write_leu32(dev, now, addr, value)
      [] order = "Big"    -> write_beu32(dev, now, addr, value)

write_beu64(dev, now, addr, value) == TypedWrite(BusAccess_write(dev, now, addr, to_be_bytes(value)))

write_leu64(dev, now, addr, value) == TypedWrite(BusAccess_write(dev, now, addr, to_le_bytes(value)))

write_u64(dev, order, now, addr, value) ==
    CASE order = "Little" -> write_leu64(dev, now, addr, value)
      [] order = "Big"    -> write_beu64(dev, now, addr, value)

---------------------------------------------------------------------------
(* State                                                                   *)

VARIABLES
    dev,     \* the device under test (a memory, an adapter, a bus)
    ref,     \* adapter runs: the inner device driven directly, side by side
    last,    \* the last call made on dev: its arguments and its result
    nops,    \* the number of calls made so far
    cpu,     \* accumulator runs: the Cpu { pc, sum, running }
    drv,     \* accumulator runs: the position of the driver loop
    steps,   \* accumulator runs: the number of step calls made
    checks,  \* accumulator runs: the build checks arithmetic overflow
    prog     \* accumulator runs: the values v1..vn that were loaded

vars == <<dev, ref, last, nops, cpu, drv, steps, checks, prog>>
cpuVars == <<cpu, drv, steps, checks, prog>>

NoDev == [kind |-> "None"]
NoCpu == [pc |-> 0, sum |-> <<0, 0>>, running |-> FALSE]

\* no accumulator is part of the run
NoCpuRun ==
    cpu = NoCpu /\ drv = "none" /\ steps = 0 /\ checks = FALSE /\ prog = <<>>

\* a call and its result; w is the width in bytes of a typed access (0 for
\* a raw one), param tells the order-parameterized accessor from the fixed
\* one, arg is the buffer or data passed in, val the value written or read
LastOf(op, w, order, param, now, addr, arg, val, r, n) ==
    [op |-> op, w |-> w, order |-> order, param |-> param, now |-> now,
     addr |-> addr, arg |-> arg, val |-> val,
     st |-> r.st, n |-> n, err |-> r.err, buf |-> r.buf, log |-> r.log]

NoCall ==
    [op |-> "none", w |-> 0, order |-> "None", param |-> FALSE, now |-> START,
     addr |-> 0, arg |-> <<>>, val |-> <<>>,
     st |-> "Ok", n |-> 0, err |-> NoErr, buf |-> <<>>, log |-> <<>>]

\* the caller's buffer before a raw read
Fill(len) == [i \in 1..len |-> 170]

\* 1, 2, ..., n
Pattern(n) == [i \in 1..n |-> i]

---------------------------------------------------------------------------
(* The memory device under raw reads and writes                            *)

MemAddrs == {-1, 0, 1, MemLen - 1, MemLen, MemLen + 1}
RawLens == {0, 1, 4}
RawData == {<<>>, <<171>>, <<1, 2, 3, 4>>}

InitMem ==
    /\ dev \in {MemoryBlock_from(Zeros(MemLen)), MemoryBlock_from(Pattern(MemLen))}
    /\ ref = NoDev
    /\ last = NoCall
    /\ nops = 0
    /\ NoCpuRun

DoReadOnly ==
    /\ nops < MaxOps
    /\ dev' = MemoryBlock_read_only(dev)
    /\ last' = [NoCall EXCEPT !.op = "read_only"]
    /\ nops' = nops + 1
    /\ UNCHANGED <<ref, cpuVars>>

DoRead(addr, len) ==
    /\ nops < MaxOps
    /\ LET r == BusAccess_read(dev, START, addr, Fill(len))
       IN /\ dev' = r.dev
          /\ last' = LastOf("read", 0, "None", FALSE, START, addr, Fill(len), <<>>, r, r.n)
    /\ nops' = nops + 1
    /\ UNCHANGED <<ref, cpuVars>>

DoWrite(addr, data) ==
    /\ nops < MaxOps
    /\ LET r == BusAccess_write(dev, START, addr, data)
       IN /\ dev' = r.dev
          /\ last' = LastOf("write", 0, "None", FALSE, START, addr, data, <<>>, r, r.n)
    /\ nops' = nops + 1
    /\ UNCHANGED <<ref, cpuVars>>

NextMem ==
    \/ DoReadOnly
    \/ \E addr \in MemAddrs, len \in RawLens : DoRead(addr, len)
    \/ \E addr \in MemAddrs, data \in RawData : DoWrite(addr, data)

SpecMem == InitMem /\ [][NextMem]_vars

\* every byte of the range addr..addr+len is a byte of the storage of m
InStorage(m, addr, len) ==
    \A i \in addr..(addr + len - 1) : i >= 0 /\ i < Len(m.contents)

---------------------------------------------------------------------------
(* Claims about the raw operations of the memory device (SpecMem)          *)

\* C2: once read_only() has been called on a MemoryBlock, every write call,
\* for any address and any data, returns Ok(0) and leaves every byte of the
\* backing storage unchanged.
C2_ReadOnlyWriteTransfersNothing ==
    [][(dev.kind = "MemoryBlock" /\ dev.read_only /\ last'.op = "write")
        => (last'.st = "Ok" /\ last'.n = 0 /\ dev'.contents = dev.contents)]_vars

\* C3: a read or write whose byte range addr..addr+len is not entirely
\* inside the storage returns the unmapped-address error, does not panic,
\* and alters neither the caller's buffer nor the storage.
C3_OutOfRangeIsUnmapped ==
    [][(dev.kind = "MemoryBlock" /\ last'.op \in {"read", "write"}
          /\ ~InStorage(dev, last'.addr, Len(last'.arg)))
        => (last'.st = "Err" /\ last'.err = "UnmappedAddress"
              /\ last'.buf = last'.arg /\ dev' = dev)]_vars

\* C4: when the conversion of the address to a storage index fails, read
\* and write return the UnmappedAddress error, and neither the storage nor
\* the caller's buffer is modified.
C4_ConversionFailureIsUnmapped ==
    [][(dev.kind = "MemoryBlock" /\ last'.op \in {"read", "write"}
          /\ ~TryIntoUsizeOk(last'.addr))
        => (last'.st = "Err" /\ last'.err = "UnmappedAddress"
              /\ last'.buf = last'.arg /\ dev' = dev)]_vars

\* a write of four bytes at an address that does not convert was refused
C4_Witness ==
    /\ dev.kind = "MemoryBlock"
    /\ last.op = "write" /\ last.addr = -1 /\ Len(last.arg) = 4
    /\ last.st = "Err" /\ last.err = "UnmappedAddress"

---------------------------------------------------------------------------
(* The memory device under the typed accessors                             *)

\* the accessors: read_u8 / write_u8, and for 16, 32 and 64 bits the two
\* fixed-order ones and the order-parameterized one called with each order
Accessors ==
    {[w |-> 1, order |-> "None", param |-> FALSE]}
    \cup [w : {2, 4, 8}, order : {"Little", "Big"}, param : BOOLEAN]

\* 0x12, 0x1234, 0x1234_5678, 0x1234_5678_9ABC_DEF0 and values with the top
\* bit of every byte set
Values(w) ==
    CASE w = 1 -> {18, 255}
      [] w = 2 -> {<<4660>>, <<65534>>}
      [] w = 4 -> {<<4660, 22136>>, <<65534, 65020>>}
      [] w = 8 -> {<<4660, 22136, 39612, 57072>>, <<65534, 65020, 64506, 63992>>}

\* the addresses of the typed accesses of width w: the first and the last
\* at which the value fits, and one that does not convert to an index
TypedAddrs(w) == {-1, 0, MemLen - w}

TypedReadOp(d, acc, now, addr) ==
    CASE acc.w = 1 -> read_u8(d, now, addr)
      [] acc.w = 2 /\ acc.param -> read_u16(d, acc.order, now, addr)
      [] acc.w = 2 /\ ~acc.param /\ acc.order = "Big" -> read_beu16(d, now, addr)
      [] acc.w = 2 /\ ~acc.param /\ acc.order = "Little" -> read_leu16(d, now, addr)
      [] acc.w = 4 /\ acc.param -> read_u32(d, acc.order, now, addr)
      [] acc.w = 4 /\ ~acc.param /\ acc.order = "Big" -> read_beu32(d, now, addr)
      [] acc.w = 4 /\ ~acc.param /\ acc.order = "Little" -> read_leu32(d, now, addr)
      [] acc.w = 8 /\ acc.param -> read_u64(d, acc.order, now, addr)
      [] acc.w = 8 /\ ~acc.param /\ acc.order = "Big" -> read_beu64(d, now, addr)
      [] acc.w = 8 /\ ~acc.param /\ acc.order = "Little" -> read_leu64(d, now, addr)

TypedWriteOp(d, acc, now, addr, v) ==
    CASE acc.w = 1 -> write_u8(d, now, addr, v)
      [] acc.w = 2 /\ acc.param -> write_u16(d, acc.order, now, addr, v)
      [] acc.w = 2 /\ ~acc.param /\ acc.order = "Big" -> write_beu16(d, now, addr, v)
      [] acc.w = 2 /\ ~acc.param /\ acc.order = "Little" -> write_leu16(d, now, addr, v)
      [] acc.w = 4 /\ acc.param -> write_u32(d, acc.order, now, addr, v)
      [] acc.w = 4 /\ ~acc.param /\ acc.order = "Big" -> write_beu32(d, now, addr, v)
      [] acc.w = 4 /\ ~acc.param /\ acc.order = "Little" -> write_leu32(d, now, addr, v)
      [] acc.w = 8 /\ acc.param -> write_u64(d, acc.order, now, addr, v)
      [] acc.w = 8 /\ ~acc.param /\ acc.order = "Big" -> write_beu64(d, now, addr, v)
      [] acc.w = 8 /\ ~acc.param /\ acc.order = "Little" -> write_leu64(d, now, addr, v)

\* a typed value as recorded in last.val: a u8 as a sequence of one number
AsSeq(w, v) == IF w = 1 THEN <<v>> ELSE v

InitTyped == InitMem

DoTypedRead(acc, addr) ==
    /\ nops < MaxOps
    /\ LET r == TypedReadOp(dev, acc, START, addr)
       IN /\ dev' = r.dev
          /\ last' = LastOf("tread", acc.w, acc.order, acc.param, START, addr, <<>>,
                            IF r.st = "Ok" THEN AsSeq(acc.w, r.val) ELSE <<>>, r, 0)
    /\ nops' = nops + 1
    /\ UNCHANGED <<ref, cpuVars>>

DoTypedWrite(acc, addr, v) ==
    /\ nops < MaxOps
    /\ LET r == TypedWriteOp(dev, acc, START, addr, v)
       IN /\ dev' = r.dev
          /\ last' = LastOf("twrite", acc.w, acc.order, acc.param, START, addr, <<>>,
                            AsSeq(acc.w, v), r, 0)
    /\ nops' = nops + 1
    /\ UNCHANGED <<ref, cpuVars>>

NextTyped ==
    \/ DoReadOnly
    \/ \E acc \in Accessors : \E addr \in TypedAddrs(acc.w) : DoTypedRead(acc, addr)
    \/ \E acc \in Accessors : \E addr \in TypedAddrs(acc.w), v \in Values(acc.w) :
          DoTypedWrite(acc, addr, v)
    \/ \E addr \in TypedAddrs(4) : DoRead(addr, 4)

SpecTyped == InitTyped /\ [][NextTyped]_vars

---------------------------------------------------------------------------
(* Claims about the typed accessors on the memory device (SpecTyped)       *)

\* C1: round trip.  For every address a such that a..a+W/8 lies inside the
\* memory block, every width W, byte order O and value v: the width-W
\* order-O write of v at a succeeds, and the width-W order-O read at a that
\* follows it returns v.
C1_RoundTrip ==
    [][(/\ dev.kind = "MemoryBlock"
        /\ last.op = "twrite" /\ InStorage(dev, last.addr, last.w)
        /\ last'.op = "tread" /\ last'.w = last.w /\ last'.order = last.order
        /\ last'.addr = last.addr)
        => (last.st = "Ok" /\ last'.st = "Ok" /\ last'.val = last.val)]_vars

\* 0x1234_5678_9ABC_DEF0 was written little-endian at the last address where
\* it fits and read back with the parameterized little-endian read
C1_Witness ==
    /\ nops = 2 /\ dev.kind = "MemoryBlock"
    /\ last.op = "tread" /\ last.w = 8 /\ last.order = "Little" /\ last.param
    /\ last.addr = MemLen - 8 /\ last.st = "Ok"
    /\ last.val = <<4660, 22136, 39612, 57072>>
    /\ dev.contents[MemLen] = 18 /\ dev.contents[MemLen - 7] = 240

\* C10: byte layout of the 32-bit writes.  After write_beu32 of v at a the
\* storage holds the most significant byte of v at a and the least
\* significant at a+3; after write_leu32 the least significant at a and the
\* most significant at a+3; a raw 4-byte read at 0 after the big-endian
\* write of 0x12345678 at 0 yields [0x12,0x34,0x56,0x78], after the
\* little-endian write [0x78,0x56,0x34,0x12].
C10_ByteLayout ==
    [][/\ (last'.op = "twrite" /\ last'.w = 4 /\ InStorage(dev, last'.addr, 4))
          => /\ last'.st = "Ok"
             /\ \A i \in 0..3 :
                  dev'.contents[last'.addr + 1 + i] =
                     ByteOf(last'.val, IF last'.order = "Big" THEN 3 - i ELSE i)
       /\ (last.op = "twrite" /\ last.w = 4 /\ last.addr = 0
             /\ last.val = <<4660, 22136>>
             /\ last'.op = "read" /\ last'.addr = 0 /\ Len(last'.arg) = 4)
          => /\ last'.st = "Ok" /\ last'.n = 4
             /\ last.order = "Big" => last'.buf = <<18, 52, 86, 120>>
             /\ last.order = "Little" => last'.buf = <<120, 86, 52, 18>>]_vars

\* the raw read after write_leu32(0, 0x12345678) returned 78 56 34 12
C10_Witness ==
    /\ nops = 2 /\ last.op = "read" /\ last.addr = 0 /\ last.st = "Ok"
    /\ last.buf = <<120, 86, 52, 18>>
    /\ dev.contents[1] = 120 /\ dev.contents[4] = 18

---------------------------------------------------------------------------
(* A device behind an adapter.  ref is the same inner device, on which     *)
(* every operation is also made directly, at the translated address.       *)

\* the instants of the calls: the epoch and the instant one step later
Instants == {START, START + StepNanos}

\* the device an adapter wraps, its address translation, its error mapping
InnerOf(a) == IF a.kind = "BusAdapter" THEN a.bus ELSE a.inner

TranslateOf(a, addr) ==
    IF a.kind = "AutoBusAdapter" THEN from_address(addr) ELSE Translate(a.translate, addr)

MapErrOf(a, e) ==
    IF a.kind = "BusAdapter" THEN MapErr(a.map_err, e) ELSE MapErr(a.error_out, e)

Adapters ==
    LET m == MemoryBlock_from(Pattern(MemLen))
    IN {BusAdapter_new(m, t, e) : t \in {"as_u64", "as_i8"}, e \in {"BusError", "Into"}}
       \cup {IntoAdapter_new(m, t, e) : t \in {"as_u64", "as_i8"}, e \in {"BusError", "Into"}}
       \cup {AutoBusAdapter_new(m, e) : e \in {"BusError", "Into"}}
       \cup {BusAdapter_new(Output_new, "as_u16", "BusError")}

\* outer addresses: inside the memory, past its end, and 255, which as_i8
\* translates to -1
AdapterAddrs == {0, 1, MemLen, 255}
AdapterLens == {1, 4}
\* 0xFF is not UTF-8
AdapterData == {<<255>>, <<1, 2, 3, 4>>}

\* st, count, error and buffer of a result
Outcome(r) == [st |-> r.st, n |-> r.n, err |-> r.err, buf |-> r.buf]

InitAdapter ==
    /\ dev \in Adapters
    /\ ref = InnerOf(dev)
    /\ last = NoCall
    /\ nops = 0
    /\ NoCpuRun

AdapterRead(now, addr, len) ==
    /\ nops < MaxOps
    /\ LET r == BusAccess_read(dev, now, addr, Fill(len))
           d == BusAccess_read(ref, now, TranslateOf(dev, addr), Fill(len))
       IN /\ dev' = r.dev
          /\ ref' = d.dev
          /\ last' = [direct |-> Outcome(d)] @@
                     LastOf("read", 0, "None", FALSE, now, addr, Fill(len), <<>>, r, r.n)
    /\ nops' = nops + 1
    /\ UNCHANGED cpuVars

AdapterWrite(now, addr, data) ==
    /\ nops < MaxOps
    /\ LET r == BusAccess_write(dev, now, addr, data)
           d == BusAccess_write(ref, now, TranslateOf(dev, addr), data)
       IN /\ dev' = r.dev
          /\ ref' = d.dev
          /\ last' = [direct |-> Outcome(d)] @@
                     LastOf("write", 0, "None", FALSE, now, addr, data, <<>>, r, r.n)
    /\ nops' = nops + 1
    /\ UNCHANGED cpuVars

NextAdapter ==
    \/ \E now \in Instants, addr \in AdapterAddrs, len \in AdapterLens :
          AdapterRead(now, addr, len)
    \/ \E now \in Instants, addr \in AdapterAddrs, data \in AdapterData :
          AdapterWrite(now, addr, data)

SpecAdapter == InitAdapter /\ [][NextAdapter]_vars

---------------------------------------------------------------------------
(* Claims about the adapters (SpecAdapter)                                 *)

AdapterKinds == {"BusAdapter", "IntoAdapter", "AutoBusAdapter"}

\* the positions of the events of kind ev in a call log
Events(log, evs) == {i \in DOMAIN log : log[i].ev \in evs}

\* C5: static adapter equivalence.  After any sequence of reads and writes
\* through a BusAdapter, the last one, at outer address x, returned the same
\* count and filled the buffer with the same bytes as the same call made
\* directly on the inner device at translate(x), and the adapter's inner
\* device is in the state of the device that was driven directly.
C5_StaticAdapterEquivalence ==
    (dev.kind \in {"BusAdapter", "IntoAdapter"} /\ last.op \in {"read", "write"})
    => /\ last.st = last.direct.st
       /\ last.n = last.direct.n
       /\ last.buf = last.direct.buf
       /\ InnerOf(dev) = ref

\* a read through the adapter that casts to i8 returned the four bytes that
\* an earlier write through it had stored
C5_Witness ==
    /\ nops = 2 /\ dev.kind = "BusAdapter" /\ dev.translate = "as_i8"
    /\ last.op = "read" /\ last.addr = 1 /\ last.st = "Ok" /\ last.n = 4
    /\ last.buf = <<1, 2, 3, 4>>
    /\ ref.contents # Pattern(MemLen)

C7_AdapterCallOrder ==
    (dev.kind \in AdapterKinds /\ last.op \in {"read", "write"})
    => LET log == last.log
       IN /\ Len(log) >= 2
          /\ log[1] = Translated(dev.kind, last.addr, TranslateOf(dev, last.addr))
          /\ log[2] = Call(last.op, InnerOf(dev).kind, last.now, log[1].to, last.arg)
          /\ Events(log, {"translate"}) = {1}
          /\ Events(log, {"read", "write"}) = {2}
          /\ Events(log, {"map_err"}) = IF last.st = "Err" THEN {4} ELSE {}
          /\ \A i \in Events(log, {"map_err"}) :
                /\ log[i - 1].ev = "return" /\ log[i - 1].st = "Err"
                /\ log[i].from = log[i - 1].err

\* a write of bytes that are not UTF-8 through the adapter of the output, at
\* the later instant: translate, one inner write, its error, the mapping
C7_Witness ==
    /\ dev.kind = "BusAdapter" /\ InnerOf(dev).kind = "Output"
    /\ last.op = "write" /\ last.now = START + StepNanos /\ last.addr = 1
    /\ last.st = "Err"
    /\ Len(last.log) = 4
    /\ last.log[2] = Call("write", "Output", START + StepNanos, 1, <<255>>)
    /\ last.log[4] = Mapped("BusAdapter", "Utf8Error", "BusError")

---------------------------------------------------------------------------
(* The accumulator Cpu of the step tests and its driver                    *)

\* u32 as u64, as a number (the model's program counters are below 2^31)
U32AsU64(v) == v[1] * LimbBase + v[2]

\* a + b on u32: the wrapped sum, and whether it overflowed
Add32(a, b) ==
    LET lo == a[2] + b[2]
        hi == a[1] + b[1] + (lo \div LimbBase)
    IN [sum |-> <<hi % LimbBase, lo % LimbBase>>, overflow |-> hi >= LimbBase]

\* Cpu::default()
Cpu_default == [pc |-> 0, sum |-> <<0, 0>>, running |-> FALSE]

\* Step::is_running
Cpu_is_running(self) == self.running

\* the result of a reset or step: the Cpu and the bus after the call, and
\* for an Ok step the instant of the next step
StepResult(st, err, self, bus, next, log) ==
    [st |-> st, err |-> err, cpu |-> self, bus |-> bus, next |-> next, log |-> log]

\* a reset that sets the running flag only after its read succeeded
Cpu_reset_read_first(self, now, bus) ==
    LET r == read_beu32(bus, now, 0)
    IN CASE r.st = "Ok" ->
              StepResult("Ok", NoErr,
                         [self EXCEPT !.running = TRUE, !.pc = U32AsU64(r.val)],
                         r.dev, now, r.log)
         [] r.st = "Err" -> StepResult("Err", "BusError", self, r.dev, now, r.log)
         [] r.st = "Panic" -> StepResult("Panic", NoErr, self, r.dev, now, r.log)

\* Step::reset
Cpu_reset(self, now, bus) ==
    LET s1 == [self EXCEPT !.running = TRUE]
        r == read_beu32(bus, now, 0)
    IN CASE r.st = "Ok" ->
              StepResult("Ok", NoErr, [s1 EXCEPT !.pc = U32AsU64(r.val)], r.dev, now, r.log)
         [] r.st = "Err" -> StepResult("Err", "BusError", s1, r.dev, now, r.log)
         [] r.st = "Panic" -> StepResult("Panic", NoErr, s1, r.dev, now, r.log)

\* a step that advances the program counter before it reads
Cpu_step_advance_first(self, now, bus, overflow_checks) ==
    IF ~self.running THEN StepResult("Ok", NoErr, self, bus, now + StepNanos, <<>>)
    ELSE
    LET r == read_beu32(bus, now, self.pc)
        s1 == [self EXCEPT !.pc = self.pc + 4]
        add == Add32(self.sum, r.val)
    IN CASE r.st = "Err" -> StepResult("Err", "BusError", s1, r.dev, now, r.log)
         [] r.st = "Panic" -> StepResult("Panic", NoErr, s1, r.dev, now, r.log)
         [] r.st = "Ok" /\ r.val = <<0, 0>> ->
              StepResult("Ok", NoErr, [s1 EXCEPT !.running = FALSE], r.dev,
                         now + StepNanos, r.log)
         [] r.st = "Ok" /\ r.val # <<0, 0>> /\ add.overflow /\ overflow_checks ->
              StepResult("Panic", NoErr, s1, r.dev, now, r.log)
         [] r.st = "Ok" /\ r.val # <<0, 0>> /\ ~(add.overflow /\ overflow_checks) ->
              StepResult("Ok", NoErr, [s1 EXCEPT !.sum = add.sum], r.dev,
                         now + StepNanos, r.log)

\* a step that reads a second time when the bus returned an error
Cpu_step_retry(self, now, bus, overflow_checks) ==
    IF ~self.running THEN StepResult("Ok", NoErr, self, bus, now + StepNanos, <<>>)
    ELSE
    LET r1 == read_beu32(bus, now, self.pc)
        r2 == read_beu32(r1.dev, now, self.pc)
        r == IF r1.st = "Err" THEN [r2 EXCEPT !.log = r1.log \o r2.log] ELSE r1
        s1 == [self EXCEPT !.pc = self.pc + 4]
        add == Add32(self.sum, r.val)
    IN CASE r.st = "Err" -> StepResult("Err", "BusError", self, r.dev, now, r.log)
         [] r.st = "Panic" -> StepResult("Panic", NoErr, self, r.dev, now, r.log)
         [] r.st = "Ok" /\ r.val = <<0, 0>> ->
              StepResult("Ok", NoErr, [s1 EXCEPT !.running = FALSE], r.dev,
                         now + StepNanos, r.log)
         [] r.st = "Ok" /\ r.val # <<0, 0>> /\ add.overflow /\ overflow_checks ->
              StepResult("Panic", NoErr, s1, r.dev, now, r.log)
         [] r.st = "Ok" /\ r.val # <<0, 0>> /\ ~(add.overflow /\ overflow_checks) ->
              StepResult("Ok", NoErr, [s1 EXCEPT !.sum = add.sum], r.dev,
                         now + StepNanos, r.log)

\* a step that does not look at the running flag
Cpu_step_while_halted(self, now, bus, overflow_checks) ==
    LET r == read_beu32(bus, now, self.pc)
        s1 == [self EXCEPT !.pc = self.pc + 4]
        add == Add32(self.sum, r.val)
    IN CASE r.st = "Err" -> StepResult("Err", "BusError", self, r.dev, now, r.log)
         [] r.st = "Panic" -> StepResult("Panic", NoErr, self, r.dev, now, r.log)
         [] r.st = "Ok" /\ r.val = <<0, 0>> ->
              StepResult("Ok", NoErr, [s1 EXCEPT !.running = FALSE], r.dev,
                         now + StepNanos, r.log)
         [] r.st = "Ok" /\ r.val # <<0, 0>> /\ add.overflow /\ overflow_checks ->
              StepResult("Panic", NoErr, s1, r.dev, now, r.log)
         [] r.st = "Ok" /\ r.val # <<0, 0>> /\ ~(add.overflow /\ overflow_checks) ->
              StepResult("Ok", NoErr, [s1 EXCEPT !.sum = add.sum], r.dev,
                         now + StepNanos, r.log)

\* a step that does not advance the program counter
Cpu_step_no_advance(self, now, bus, overflow_checks) ==
    IF ~self.running THEN StepResult("Ok", NoErr, self, bus, now + StepNanos, <<>>)
    ELSE
    LET r == read_beu32(bus, now, self.pc)
        add == Add32(self.sum, r.val)
    IN CASE r.st = "Err" -> StepResult("Err", "BusError", self, r.dev, now, r.log)
         [] r.st = "Panic" -> StepResult("Panic", NoErr, self, r.dev, now, r.log)
         [] r.st = "Ok" /\ r.val = <<0, 0>> ->
              StepResult("Ok", NoErr, [self EXCEPT !.running = FALSE], r.dev,
                         now + StepNanos, r.log)
         [] r.st = "Ok" /\ r.val # <<0, 0>> /\ add.overflow /\ overflow_checks ->
              StepResult("Panic", NoErr, self, r.dev, now, r.log)
         [] r.st = "Ok" /\ r.val # <<0, 0>> /\ ~(add.overflow /\ overflow_checks) ->
              StepResult("Ok", NoErr, [self EXCEPT !.sum = add.sum], r.dev,
                         now + StepNanos, r.log)

\* a step that stores the value read instead of adding it
Cpu_step_assign(self, now, bus, overflow_checks) ==
    IF ~self.running THEN StepResult("Ok", NoErr, self, bus, now + StepNanos, <<>>)
    ELSE
    LET r == read_beu32(bus, now, self.pc)
        s1 == [self EXCEPT !.pc = self.pc + 4]
    IN CASE r.st = "Err" -> StepResult("Err", "BusError", self, r.dev, now, r.log)
         [] r.st = "Panic" -> StepResult("Panic", NoErr, self, r.dev, now, r.log)
         [] r.st = "Ok" /\ r.val = <<0, 0>> ->
              StepResult("Ok", NoErr, [s1 EXCEPT !.running = FALSE], r.dev,
                         now + StepNanos, r.log)
         [] r.st = "Ok" /\ r.val # <<0, 0>> ->
              StepResult("Ok", NoErr, [s1 EXCEPT !.sum = r.val], r.dev,
                         now + StepNanos, r.log)

\* Step::step.  self.sum += value overflows u32 when the sum passes 2^32-1:
\* a build with overflow checks panics there (after pc += 4), one without
\* wraps.
Cpu_step(self, now, bus, overflow_checks) ==
    IF ~self.running THEN StepResult("Ok", NoErr, self, bus, now + StepNanos, <<>>)
    ELSE
    LET r == read_beu32(bus, now, self.pc)
        s1 == [self EXCEPT !.pc = self.pc + 4]
        add == Add32(self.sum, r.val)
    IN CASE r.st = "Err" -> StepResult("Err", "BusError", self, r.dev, now, r.log)
         [] r.st = "Panic" -> StepResult("Panic", NoErr, self, r.dev, now, r.log)
         [] r.st = "Ok" /\ r.val = <<0, 0>> ->
              StepResult("Ok", NoErr, [s1 EXCEPT !.running = FALSE], r.dev,
                         now + StepNanos, r.log)
         [] r.st = "Ok" /\ r.val # <<0, 0>> /\ add.overflow /\ overflow_checks ->
              StepResult("Panic", NoErr, s1, r.dev, now, r.log)
         [] r.st = "Ok" /\ r.val # <<0, 0>> /\ ~(add.overflow /\ overflow_checks) ->
              StepResult("Ok", NoErr, [s1 EXCEPT !.sum = add.sum], r.dev,
                         now + StepNanos, r.log)

---------------------------------------------------------------------------
(* The systems of test_static_system and test_dynamic_system               *)

\* the values of the bounded programs: 1, 2, 0x1_0000 and 0xFFFF_FFFF
ProgValues == {<<0, 1>>, <<0, 2>>, <<1, 0>>, <<65535, 65535>>}

\* the programs of at most n values
Programs(n) == UNION {[1..k -> ProgValues] : k \in 0..n}

\* the program of the tests: 1, 2, ..., 100
TestProgram == [i \in 1..TestCount |-> <<0, i>>]

\* the base addresses of the program: that of the tests, and the lowest
ProgLocations == {Location, 4}

\* a u32 from a number below 2^31
U32(x) == <<x \div LimbBase, x % LimbBase>>

\* for i in lo..hi { bus.write_beu32(START, location + 4 * i, v_i).unwrap() }
\* (i from 1): the writes are made in the order of the loop; the range is
\* halved only to keep the evaluation shallow.  A set-up whose write fails
\* builds no system.
RECURSIVE LoadProgram(_, _, _, _, _)
LoadProgram(bus, location, p, lo, hi) ==
    IF lo > hi \/ bus = NoDev THEN bus
    ELSE IF lo = hi
    THEN LET r == write_beu32(bus, START, location + 4 * (lo - 1), p[lo])
         IN IF r.st = "Ok" THEN r.dev ELSE NoDev
    ELSE LET mid == (lo + hi) \div 2
         IN LoadProgram(LoadProgram(bus, location, p, lo, mid), location, p, mid + 1, hi)

\* the bus of a test after its set-up: the location at 0, the program at it
Loaded(bus, location, p) ==
    LET r == write_beu32(bus, START, 0, U32(location))
    IN IF r.st = "Ok" THEN LoadProgram(r.dev, location, p, 1, Len(p)) ELSE NoDev

StaticSystem(location, p) ==
    LET memory == Loaded(Memory_new(Zeros(TestMemLen)), location, p)
    IN FixedBus_new(Output_new, memory)

DynamicSystem(location, p) ==
    Loaded(DynamicBus_new(<<
        [range |-> <<0, MemRangeEnd>>,
         device |-> BusAdapter_new(Memory_new(Zeros(TestMemLen)), "as_u32", "BusError")],
        [range |-> <<OutRangeStart, OutRangeEnd>>,
         device |-> BusAdapter_new(Output_new, "as_u16", "BusError")] >>),
      location, p)

\* the step calls of a run are capped above the longest run of the model
StepCap == TestCount + 2

InitCpu ==
    /\ prog \in Programs(MaxProg) \cup {TestProgram}
    /\ \E location \in ProgLocations :
          dev \in {StaticSystem(location, prog), DynamicSystem(location, prog)}
    /\ checks \in BOOLEAN
    /\ cpu = Cpu_default
    /\ drv = "start"
    /\ steps = 0
    /\ ref = NoDev
    /\ last = NoCall
    /\ nops = 0

\* what is left of a driver after a call: it goes on, returns the error
\* (the ? operator) or unwinds
After(st, on) ==
    CASE st = "Ok" -> on [] st = "Err" -> "failed" [] st = "Panic" -> "panicked"

\* cpu.reset(Duration::START, bus)?
DriverReset ==
    /\ drv = "start"
    /\ LET r == Cpu_reset(cpu, START, dev)
       IN /\ cpu' = r.cpu
          /\ dev' = r.bus
          /\ drv' = After(r.st, "loop")
          /\ last' = [NoCall EXCEPT !.op = "reset", !.st = r.st, !.err = r.err,
                                    !.log = r.log]
    /\ UNCHANGED <<ref, nops, steps, checks, prog>>

\* while cpu.is_running() { cpu.step(Duration::START, bus)?; }
DriverStep ==
    /\ drv = "loop"
    /\ Cpu_is_running(cpu)
    /\ steps < StepCap
    /\ LET r == Cpu_step(cpu, START, dev, checks)
       IN /\ cpu' = r.cpu
          /\ dev' = r.bus
          /\ drv' = After(r.st, "loop")
          /\ last' = [NoCall EXCEPT !.op = "step", !.st = r.st, !.err = r.err,
                                    !.now = r.next, !.log = r.log]
    /\ steps' = steps + 1
    /\ UNCHANGED <<ref, nops, checks, prog>>

\* the loop ends; Ok(())
DriverExit ==
    /\ drv = "loop"
    /\ ~Cpu_is_running(cpu)
    /\ drv' = "done"
    /\ UNCHANGED <<dev, ref, last, nops, cpu, steps, checks, prog>>

NextCpu == DriverReset \/ DriverStep \/ DriverExit

SpecCpu == InitCpu /\ [][NextCpu]_vars

\* the driver has a next call to make: the guards of NextCpu
DriverHasStep ==
    \/ drv = "start"
    \/ drv = "loop" /\ (Cpu_is_running(cpu) => steps < StepCap)

\* a call of the driver seen through its control state alone: every step of
\* NextCpu moves drv or counts a step call, and is enabled just when
\* DriverHasStep
DriverTurn ==
    /\ DriverHasStep
    /\ drv' \in {"loop", "done", "failed", "panicked"}
    /\ steps' \in {steps, steps + 1}
    /\ <<drv', steps'>> # <<drv, steps>>

\* the driver is a sequential loop: it takes its next step whenever it has one
SpecCpuFair == SpecCpu /\ WF_<<drv, steps>>(DriverTurn)

---------------------------------------------------------------------------
(* Claims about the accumulator (SpecCpu, SpecCpuFair)                     *)

\* the sum of limb k of the values p[i..], as a number
RECURSIVE SumLimb(_, _, _)
SumLimb(p, k, i) == IF i > Len(p) THEN 0 ELSE p[i][k] + SumLimb(p, k, i + 1)

\* v1 + ... + vn = SumHigh(p) * 2^16 + SumLow(p), with SumLow(p) < 2^16
SumLow(p) == SumLimb(p, 2, 1) % LimbBase
SumHigh(p) == SumLimb(p, 1, 1) + (SumLimb(p, 2, 1) \div LimbBase)

\* v1 + ... + vn <= u32::MAX
FitsU32(p) == SumHigh(p) < LimbBase

\* the running sum is the number v1 + ... + vn
SumIsExact == cpu.sum[1] = SumHigh(prog) /\ cpu.sum[2] = SumLow(prog)

\* C8 as claimed: after reset and the step loop on a memory that holds the
\* base address at 0 and v1..vn, 0 at the base, the running sum equals
\* v1+...+vn, on the fixed bus and on the dynamic bus.
C8_SumOfAnyProgram == drv = "done" => SumIsExact

\* C8 as amended: when v1+...+vn does not exceed u32::MAX the driver neither
\* fails nor panics, and when its loop has ended the device is halted with
\* a running sum equal to v1+...+vn: 5050 for the values 1..100; on the
\* fixed bus and on the dynamic bus.
C8_SumOfProgramThatFits ==
    FitsU32(prog)
    => /\ drv \notin {"failed", "panicked"}
       /\ drv = "done" => (SumIsExact /\ ~Cpu_is_running(cpu))
       /\ (drv = "done" /\ prog = TestProgram) => cpu.sum = <<0, 5050>>

\* the dynamic system has run the program 1..100 of the test to its end
C8_Witness ==
    /\ drv = "done" /\ dev.kind = "DynamicBus" /\ prog = TestProgram
    /\ steps = TestCount + 1 /\ cpu.sum = <<0, 5050>> /\ cpu.pc = Location + 4 * steps

---------------------------------------------------------------------------
(* A DynamicBus under raw reads and writes                                 *)

\* a bus whose ranges overlap: 2..6 on a Memory, 4..MemLen on a MemoryBlock,
\* MemLen-1..MemLen+4 on the Output, each behind its BusAdapter
OverlapBus ==
    DynamicBus_new(<<
        [range |-> <<2, 6>>,
         device |-> BusAdapter_new(Memory_new(Pattern(MemLen)), "as_u32", "BusError")],
        [range |-> <<4, MemLen>>,
         device |-> BusAdapter_new(MemoryBlock_from(Zeros(MemLen)), "as_u64", "BusError")],
        [range |-> <<MemLen - 1, MemLen + 4>>,
         device |-> BusAdapter_new(Output_new, "as_u16", "BusError")] >>)

\* the bus of test_dynamic_system, with a memory of MemLen bytes
TestBus ==
    DynamicBus_new(<<
        [range |-> <<0, MemRangeEnd>>,
         device |-> BusAdapter_new(Memory_new(Pattern(MemLen)), "as_u32", "BusError")],
        [range |-> <<OutRangeStart, OutRangeEnd>>,
         device |-> BusAdapter_new(Output_new, "as_u16", "BusError")] >>)

\* addresses in no range, in one, in two, and at the ends of the ranges
BusAddrs == {0, 2, 4, 5, MemLen - 1, MemLen, MemLen + 4, OutRangeStart, OutRangeEnd}
BusLens == {1, 2}
\* 0xFF is not UTF-8, "AB" is
BusData == {<<255>>, <<65, 66>>}

InitBus ==
    /\ dev \in {OverlapBus, TestBus}
    /\ ref = NoDev
    /\ last = NoCall
    /\ nops = 0
    /\ NoCpuRun

BusRead(now, addr, len) ==
    /\ nops < MaxOps
    /\ LET r == BusAccess_read(dev, now, addr, Fill(len))
       IN /\ dev' = r.dev
          /\ last' = LastOf("read", 0, "None", FALSE, now, addr, Fill(len), <<>>, r, r.n)
    /\ nops' = nops + 1
    /\ UNCHANGED <<ref, cpuVars>>

BusWrite(now, addr, data) ==
    /\ nops < MaxOps
    /\ LET r == BusAccess_write(dev, now, addr, data)
       IN /\ dev' = r.dev
          /\ last' = LastOf("write", 0, "None", FALSE, now, addr, data, <<>>, r, r.n)
    /\ nops' = nops + 1
    /\ UNCHANGED <<ref, cpuVars>>

NextBus ==
    \/ \E now \in Instants, addr \in BusAddrs, len \in BusLens : BusRead(now, addr, len)
    \/ \E now \in Instants, addr \in BusAddrs, data \in BusData : BusWrite(now, addr, data)

SpecBus == InitBus /\ [][NextBus]_vars

---------------------------------------------------------------------------
(* Claims about the composite bus (SpecBus)                                *)

\* the indices of the pairs of bus b whose range contains x
Matching(b, x) == {i \in DOMAIN b.devices : RangeContains(b.devices[i].range, x)}

\* C11: first-match dispatch.  A read or write on the bus at an address x
\* that some range contains makes exactly one call on a device, the call
\* with the caller's instant and buffer on the device of the first pair, in
\* declaration order, whose range contains x; that pair's device is left as
\* the same call made on it directly leaves it, and no other pair changes.
C11_FirstMatchDispatch ==
    [][(dev.kind = "DynamicBus" /\ last'.op \in {"read", "write"}
          /\ Matching(dev, last'.addr) # {})
        => LET x == last'.addr
               f == CHOOSE i \in Matching(dev, x) : \A j \in Matching(dev, x) : i <= j
               d == dev.devices[f].device
               direct == IF last'.op = "read"
                         THEN BusAccess_read(d, last'.now, x, last'.arg)
                         ELSE BusAccess_write(d, last'.now, x, last'.arg)
               calls == Events(last'.log, {"read", "write"})
           IN /\ Cardinality(calls) = 1
              /\ \A k \in calls :
                    last'.log[k] = Call(last'.op, InnerOf(d).kind, last'.now,
                                        TranslateOf(d, x), last'.arg)
              /\ DOMAIN dev'.devices = DOMAIN dev.devices
              /\ dev'.devices[f] = [dev.devices[f] EXCEPT !.device = direct.dev]
              /\ \A j \in DOMAIN dev.devices \ {f} : dev'.devices[j] = dev.devices[j]
              /\ last'.buf = direct.buf /\ last'.n = direct.n /\ last'.st = direct.st]_vars

\* two bytes were written at 4, which the first and the second range hold:
\* the Memory of the first pair has them, the MemoryBlock of the second is
\* still all zeros, and a read at 4 returned them
C11_Witness ==
    /\ dev.kind = "DynamicBus" /\ Len(dev.devices) = 3 /\ nops = 2
    /\ last.op = "read" /\ last.addr = 4 /\ last.st = "Ok" /\ last.buf = <<65, 66>>
    /\ dev.devices[1].device.bus.contents[5] = 65
    /\ dev.devices[2].device.bus.contents = Zeros(MemLen)

\* C12: a read or write on the bus at an address that no range contains
\* returns Ok(0), calls no device, and leaves the caller's buffer and every
\* device as they were.
C12_UnmappedTransfersNothing ==
    [][(dev.kind = "DynamicBus" /\ last'.op \in {"read", "write"}
          /\ Matching(dev, last'.addr) = {})
        => /\ last'.st = "Ok" /\ last'.n = 0
           /\ last'.log = <<>>
           /\ last'.buf = last'.arg
           /\ dev' = dev]_vars

\* a write at the end of the last range, which is in no range, after a write
\* that reached the first memory
C12_Witness ==
    /\ dev.kind = "DynamicBus" /\ nops = 2
    /\ last.op = "write" /\ last.addr = OutRangeEnd /\ last.arg = <<65, 66>>
    /\ last.st = "Ok" /\ last.n = 0 /\ last.log = <<>>
    /\ dev # TestBus

---------------------------------------------------------------------------
(* The accumulator under any sequence of reset and step calls              *)

\* the memory of a small system: the location word and MaxProg + 1 words
SysMemLen == 4 * (MaxProg + 2)

\* the systems of the tests with a memory of SysMemLen bytes, the program at 4
SmallStatic(p) ==
    FixedBus_new(Output_new, Loaded(Memory_new(Zeros(SysMemLen)), 4, p))

SmallDynamic(p) ==
    Loaded(DynamicBus_new(<<
        [range |-> <<0, MemRangeEnd>>,
         device |-> BusAdapter_new(Memory_new(Zeros(SysMemLen)), "as_u32", "BusError")],
        [range |-> <<OutRangeStart, OutRangeEnd>>,
         device |-> BusAdapter_new(Output_new, "as_u16", "BusError")] >>),
      4, p)

\* a MemoryBlock of signed addresses behind an adapter: the program at 4,
\* and the word at 0 naming `location`
SignedSystem(translate, location, p) ==
    LET m == Loaded(MemoryBlock_from(Zeros(SysMemLen)), 4, p)
    IN BusAdapter_new(write_beu32(m, START, 0, U32(location)).dev, translate, "BusError")

\* the buses of the runs: the two of the tests; one whose memory refuses
\* the addresses above i8::MAX, with the program where the location word
\* says and with the location word naming 255; one whose memory refuses
\* address 0
Systems(p) ==
    {SmallStatic(p), SmallDynamic(p),
     SignedSystem("as_i8", 4, p), SignedSystem("as_i8", 255, p),
     SignedSystem("not_i8", 4, p)}

\* the calls of a run are capped: a reset, a whole program, and more
MaxCalls == MaxProg + 4

InitStep ==
    /\ prog \in Programs(MaxProg)
    /\ dev \in Systems(prog)
    /\ checks \in BOOLEAN
    /\ cpu = Cpu_default
    /\ drv = "calls"
    /\ steps = 0
    /\ ref = NoDev
    /\ last = NoCall
    /\ nops = 0

\* cpu.reset(Duration::START, bus)
CallReset ==
    /\ drv = "calls"
    /\ nops < MaxCalls
    /\ LET r == Cpu_reset(cpu, START, dev)
       IN /\ cpu' = r.cpu
          /\ dev' = r.bus
          /\ drv' = IF r.st = "Panic" THEN "panicked" ELSE "calls"
          /\ last' = [NoCall EXCEPT !.op = "reset", !.st = r.st, !.err = r.err,
                                    !.log = r.log]
    /\ nops' = nops + 1
    /\ UNCHANGED <<ref, steps, checks, prog>>

\* cpu.step(Duration::START, bus)
CallStep ==
    /\ drv = "calls"
    /\ nops < MaxCalls
    /\ LET r == Cpu_step(cpu, START, dev, checks)
       IN /\ cpu' = r.cpu
          /\ dev' = r.bus
          /\ drv' = IF r.st = "Panic" THEN "panicked" ELSE "calls"
          /\ last' = [NoCall EXCEPT !.op = "step", !.st = r.st, !.err = r.err,
                                    !.now = r.next, !.addr = cpu.pc, !.log = r.log]
    /\ nops' = nops + 1
    /\ steps' = steps + 1
    /\ UNCHANGED <<ref, checks, prog>>

\* a second bus: a zeroed MemoryBlock of signed addresses behind an adapter
\* whose translation hands it a negative address for the reset read
OtherBus == BusAdapter_new(MemoryBlock_from(Zeros(SysMemLen)), "not_i8", "BusError")

\* cpu.reset(Duration::START, &mut other): the bus is an argument of the call;
\* made in the runs of the static system
CallResetOther ==
    /\ drv = "calls"
    /\ nops < MaxCalls
    /\ dev.kind = "FixedBus"
    /\ LET r == Cpu_reset(cpu, START, OtherBus)
       IN /\ cpu' = r.cpu
          /\ drv' = IF r.st = "Panic" THEN "panicked" ELSE "calls"
          /\ last' = [NoCall EXCEPT !.op = "reset", !.st = r.st, !.err = r.err,
                                    !.addr = -1, !.log = r.log]
    /\ nops' = nops + 1
    /\ UNCHANGED <<dev, ref, steps, checks, prog>>

NextStep == CallReset \/ CallStep \/ CallResetOther

SpecStep == InitStep /\ [][NextStep]_vars

---------------------------------------------------------------------------
(* Claims about the calls of the accumulator (SpecStep)                    *)

\* the bus returned an error during the call whose log this is: the bus
\* mapped the error its device returned into its own
BusFailed(log, bus) ==
    \E i \in DOMAIN log : log[i].ev = "map_err" /\ log[i].who = bus.kind

\* C13: when the bus returns an error to the access made during a reset or
\* a step, the call returns an error, and it has made exactly one access:
\* one address translation by the bus and one read of a device, no write.
C13_BusErrorPropagated ==
    (last.op \in {"reset", "step"} /\ BusFailed(last.log, dev))
    => /\ last.st = "Err"
       /\ Cardinality(Events(last.log, {"read"})) = 1
       /\ Cardinality(Events(last.log, {"write"})) = 0
       /\ Cardinality({i \in Events(last.log, {"translate"}) :
                          last.log[i].who = dev.kind}) = 1

\* after a reset that found 255 in the location word, the step read at 255,
\* which the memory of signed addresses refused, and returned the error
C13_Witness ==
    /\ last.op = "step" /\ last.addr = 255 /\ last.st = "Err" /\ last.err = "BusError"
    /\ dev.kind = "BusAdapter" /\ dev.translate = "as_i8"
    /\ BusFailed(last.log, dev)
    /\ cpu.running /\ cpu.pc = 255

\* C14: once the device is not running, is_running() stays false through
\* every further step, until a reset; such a step makes no bus access and
\* changes neither the program counter nor the running sum.
C14_HaltIsStable ==
    [][/\ (~Cpu_is_running(cpu) /\ last'.op = "step")
          => /\ ~Cpu_is_running(cpu')
             /\ last'.st = "Ok" /\ last'.log = <<>>
             /\ cpu'.pc = cpu.pc /\ cpu'.sum = cpu.sum
             /\ dev' = dev
       /\ (~Cpu_is_running(cpu) /\ Cpu_is_running(cpu')) => last'.op = "reset"]_vars

\* a program of MaxProg values was run to its terminator, and a step was
\* made after that
C14_Witness ==
    /\ last.op = "step" /\ last.log = <<>> /\ last.st = "Ok"
    /\ ~Cpu_is_running(cpu) /\ Len(prog) = MaxProg
    /\ cpu.pc = 4 + 4 * (MaxProg + 1) /\ steps = MaxProg + 2
    /\ cpu.sum # <<0, 0>>

\* C15: after a successful reset, from any state of the device,
\* is_running() is true, the program counter is the big-endian 32-bit value
\* stored at address 0, and the device is in the state a freshly
\* constructed device is in after the same reset.
C15_ResetGivesInitialState ==
    [][(last'.op = "reset" /\ last'.st = "Ok")
        => LET fresh == Cpu_reset(Cpu_default, START, dev)
               word == read_beu32(dev, START, 0)
           IN /\ Cpu_is_running(cpu')
              /\ word.st = "Ok" /\ cpu'.pc = U32AsU64(word.val)
              /\ cpu' = fresh.cpu]_vars

---------------------------------------------------------------------------
(* More claims about the adapters (SpecAdapter)                            *)

\* the addresses at which the calls of a log reached a device
InnerAddrs(log) == {log[i].addr : i \in Events(log, {"read", "write"})}

\* the functions an adapter was constructed with
FunctionsOf(a) ==
    CASE a.kind = "BusAdapter" -> <<a.translate, a.map_err>>
      [] a.kind = "IntoAdapter" -> <<a.translate, a.error_out>>
      [] a.kind = "AutoBusAdapter" -> <<"from_address", a.error_out>>

\* C16: no read or write through an adapter changes its translation or its
\* error mapping, and a call at the outer address of the call before it,
\* read or write, reaches the inner device at the same inner address.
C16_TranslationIsFixed ==
    [][(dev.kind \in AdapterKinds /\ last'.op \in {"read", "write"})
        => /\ dev'.kind = dev.kind
           /\ FunctionsOf(dev') = FunctionsOf(dev)
           /\ InnerAddrs(last'.log) = {TranslateOf(dev, last'.addr)}
           /\ (last.op \in {"read", "write"} /\ last.addr = last'.addr)
                => InnerAddrs(last'.log) = InnerAddrs(last.log)]_vars

\* a read at outer address 1 through the adapter that casts to i8 reached
\* inner address 1 and returned the byte that a write at outer address 1
\* had stored
C16_Witness ==
    /\ nops = 2 /\ dev.kind = "IntoAdapter" /\ dev.translate = "as_i8"
    /\ last.op = "read" /\ last.addr = 1 /\ last.st = "Ok" /\ last.buf = <<255>>
    /\ InnerAddrs(last.log) = {1}
    /\ ref.contents[2] = 255

---------------------------------------------------------------------------
(* More claims about the typed accessors (SpecTyped)                       *)

\* C17: the order-parameterized accessors agree with the fixed-order ones.
\* For every width of 16, 32 and 64 bits, read_uW and write_uW called with
\* an order have the result (value or error, raw calls made) and the effect
\* on the device of the read or write accessor of that width and order.
C17_OrderParameterAgrees ==
    [][(last'.op \in {"tread", "twrite"} /\ last'.param)
        => LET acc == [w |-> last'.w, order |-> last'.order, param |-> FALSE]
               fixed == IF last'.op = "tread"
                        THEN TypedReadOp(dev, acc, last'.now, last'.addr)
                        ELSE TypedWriteOp(dev, acc, last'.now, last'.addr, last'.val)
           IN /\ last'.st = fixed.st /\ last'.err = fixed.err
              /\ last'.log = fixed.log
              /\ dev' = fixed.dev
              /\ last'.op = "tread" => last'.val = fixed.val]_vars

\* read_u32(ByteOrder::Little, ..) at 0 returned 0x12345678 from the bytes
\* 78 56 34 12
C17_Witness ==
    /\ nops = 2 /\ last.op = "tread" /\ last.param /\ last.w = 4
    /\ last.order = "Little" /\ last.addr = 0 /\ last.st = "Ok"
    /\ last.val = <<4660, 22136>>
    /\ SubSeq(dev.contents, 1, 4) = <<120, 86, 52, 18>>

\* C19: every typed accessor makes exactly one call of the raw read or
\* write, with the caller's instant and address and a buffer of W/8 bytes,
\* and returns an error exactly when that call returned one, the same one.
C19_OneRawCall ==
    [][(last'.op \in {"tread", "twrite"})
        => /\ Len(last'.log) = 1
           /\ last'.log[1].ev = (IF last'.op = "tread" THEN "read" ELSE "write")
           /\ last'.log[1].who = dev.kind
           /\ last'.log[1].now = last'.now
           /\ last'.log[1].addr = last'.addr
           /\ Len(last'.log[1].data) = last'.w
           /\ LET c == last'.log[1]
                  raw == IF c.ev = "read"
                         THEN BusAccess_read(dev, c.now, c.addr, c.data)
                         ELSE BusAccess_write(dev, c.now, c.addr, c.data)
              IN /\ (last'.st = "Err") <=> (raw.st = "Err")
                 /\ last'.err = raw.err]_vars

\* write_leu64 at an address that does not convert made its one raw write
\* of eight bytes and returned the UnmappedAddress of that write
C19_Witness ==
    /\ last.op = "twrite" /\ last.w = 8 /\ last.order = "Little" /\ ~last.param
    /\ last.addr = -1 /\ last.st = "Err" /\ last.err = "UnmappedAddress"
    /\ Len(last.log) = 1 /\ Len(last.log[1].data) = 8

---------------------------------------------------------------------------
(* Instant for Duration: the period of a frequency                         *)

\* the frequencies 0..MaxHertz are tried, and some around one gigahertz
MaxHertz == 120

\* 1_000_000_000, the nanoseconds of a second
NanosPerSecond == 1000000000

\* a period rounded to the nearest nanosecond
hertz_to_duration_rounded(hertz) ==
    IF hertz = 0 THEN [st |-> "Panic", nanos |-> 0]
    ELSE [st |-> "Ok", nanos |-> (NanosPerSecond + (hertz \div 2)) \div hertz]

\* Duration::from_nanos(1_000_000_000 / hertz): the division of u64, which
\* panics on a zero divisor; the result in nanoseconds
hertz_to_duration(hertz) ==
    IF hertz = 0 THEN [st |-> "Panic", nanos |-> 0]
    ELSE [st |-> "Ok", nanos |-> NanosPerSecond \div hertz]

\* hertz: u64, up to 2^31 - 1 in the model
Hertz ==
    (0..MaxHertz) \cup {1000, 44100, 999999999, 1000000000, 1000000001, 2147483647}

InitTime ==
    /\ dev = NoDev
    /\ ref = NoDev
    /\ last = NoCall
    /\ nops = 0
    /\ NoCpuRun

HertzToDuration(hertz) ==
    /\ nops < MaxOps
    /\ LET r == hertz_to_duration(hertz)
       IN last' = [op |-> "hertz_to_duration", hertz |-> hertz, st |-> r.st,
                   nanos |-> r.nanos]
    /\ nops' = nops + 1
    /\ UNCHANGED <<dev, ref, cpuVars>>

NextTime == \E hertz \in Hertz : HertzToDuration(hertz)

SpecTime == InitTime /\ [][NextTime]_vars

\* C18: for every frequency h >= 1, hertz_to_duration(h) returns d
\* nanoseconds with d * h <= 1_000_000_000 < (d + 1) * h, the period rounded
\* down: positive for h up to 1_000_000_000, zero for every h above.
C18_PeriodRoundedDown ==
    (last.op = "hertz_to_duration" /\ last.hertz >= 1)
    => /\ last.st = "Ok"
       /\ last.nanos >= 0
       /\ last.nanos * last.hertz <= NanosPerSecond
       /\ NanosPerSecond - last.nanos * last.hertz < last.hertz
       /\ last.hertz <= NanosPerSecond => last.nanos > 0
       /\ last.hertz > NanosPerSecond => last.nanos = 0

\* the period of 7 Hz is 142_857_142 ns, that of 1_000_000_001 Hz is 0
C18_Witness ==
    /\ last.op = "hertz_to_duration" /\ last.st = "Ok"
    /\ \/ last.hertz = 7 /\ last.nanos = 142857142 /\ nops = 1
       \/ last.hertz = 1000000001 /\ last.nanos = 0 /\ nops = 1

---------------------------------------------------------------------------
(* The automatic adapter next to the static adapter of adapter.rs built    *)
(* with translate = FromAddress::from_address, over equal inner devices;   *)
(* every operation is made on both.                                        *)

\* the inner devices: the memories, and the output, whose write can fail
AutoInners == {Memory_new(Pattern(MemLen)), MemoryBlock_from(Pattern(MemLen)), Output_new}

\* outer addresses of type u8
AutoAddrs == {0, 1, MemLen - 1, MemLen, 255}

InitAuto ==
    /\ \E inner \in AutoInners, error_out \in {"BusError", "Into"} :
          /\ dev = AutoBusAdapter_new(inner, error_out)
          /\ ref = IntoAdapter_new(inner, "from_address", error_out)
    /\ last = NoCall
    /\ nops = 0
    /\ NoCpuRun

AutoRead(now, addr, len) ==
    /\ nops < MaxOps
    /\ LET r == BusAccess_read(dev, now, addr, Fill(len))
           d == BusAccess_read(ref, now, addr, Fill(len))
       IN /\ dev' = r.dev
          /\ ref' = d.dev
          /\ last' = [direct |-> Outcome(d)] @@
                     LastOf("read", 0, "None", FALSE, now, addr, Fill(len), <<>>, r, r.n)
    /\ nops' = nops + 1
    /\ UNCHANGED cpuVars

AutoWrite(now, addr, data) ==
    /\ nops < MaxOps
    /\ LET r == BusAccess_write(dev, now, addr, data)
           d == BusAccess_write(ref, now, addr, data)
       IN /\ dev' = r.dev
          /\ ref' = d.dev
          /\ last' = [direct |-> Outcome(d)] @@
                     LastOf("write", 0, "None", FALSE, now, addr, data, <<>>, r, r.n)
    /\ nops' = nops + 1
    /\ UNCHANGED cpuVars

NextAuto ==
    \/ \E now \in Instants, addr \in AutoAddrs, len \in AdapterLens : AutoRead(now, addr, len)
    \/ \E now \in Instants, addr \in AutoAddrs, data \in AdapterData : AutoWrite(now, addr, data)

SpecAuto == InitAuto /\ [][NextAuto]_vars

\* C20: after any sequence of reads and writes made through an
\* AutoBusAdapter and through a BusAdapter constructed over an equal device
\* with translate = FromAddress::from_address, the last call returned the
\* same result on both (status, count, error, buffer), and the inner
\* devices of the two adapters are in the same state.
C20_AutoAdapterEquivalence ==
    (dev.kind = "AutoBusAdapter" /\ ref.kind = "IntoAdapter"
       /\ last.op \in {"read", "write"})
    => /\ Outcome(last) = last.direct
       /\ dev.inner = ref.inner
       /\ dev.error_out = ref.error_out
       /\ ref.translate = "from_address"

\* both adapters stored a write at 1 in their memory and a read at 1
\* returned it; or both returned the converted error of a write of bytes
\* that the output refused
C20_Witness ==
    /\ dev.kind = "AutoBusAdapter" /\ ref.kind = "IntoAdapter" /\ nops = 2
    /\ \/ /\ dev.inner.kind = "MemoryBlock" /\ last.op = "read" /\ last.addr = 1
          /\ last.st = "Ok" /\ last.buf = <<255>> /\ ref.inner.contents[2] = 255
       \/ /\ dev.inner.kind = "Output" /\ dev.error_out = "BusError"
          /\ last.op = "write" /\ last.st = "Err" /\ last.err = "BusError"
          /\ last.direct.err = "BusError"

---------------------------------------------------------------------------
(* Claims about failed calls of the accumulator (SpecStep)                 *)

\* C22: a step that returns a bus error leaves the program counter, the
\* running sum and the running flag as they were before the call.
C22_FailedStepKeepsState ==
    [][(last'.op = "step" /\ last'.st = "Err")
        => /\ cpu'.pc = cpu.pc
           /\ cpu'.sum = cpu.sum
           /\ cpu'.running = cpu.running]_vars

\* the step at 255 failed a second time: the device still runs, at 255
C22_Witness ==
    /\ last.op = "step" /\ last.st = "Err" /\ last.addr = 255
    /\ steps = 2 /\ nops = 3
    /\ cpu = [pc |-> 255, sum |-> <<0, 0>>, running |-> TRUE]

\* C23: a reset that returns a bus error leaves the program counter and the
\* running sum as they were, and leaves the device running, whatever the
\* running flag was before.
C23_FailedResetLeavesRunning ==
    [][(last'.op = "reset" /\ last'.st = "Err")
        => /\ cpu'.pc = cpu.pc
           /\ cpu'.sum = cpu.sum
           /\ Cpu_is_running(cpu')]_vars

\* a program of one value was run to its halt, and a reset then failed:
\* the device runs, with the program counter and the sum of the halt
C23_Witness ==
    /\ last.op = "reset" /\ last.st = "Err" /\ last.err = "BusError"
    /\ Len(prog) = 1 /\ steps = 2 /\ nops = 4
    /\ cpu.pc = 12 /\ cpu.sum = prog[1] /\ Cpu_is_running(cpu)

---------------------------------------------------------------------------
(* The frame of the raw operations of the memory device (SpecMem)          *)

\* C24: a successful write of len bytes at addr on a writable MemoryBlock
\* returns len, sets the bytes addr..addr+len to the data and leaves every
\* other byte, the length of the storage and the flag as they were; a
\* successful read returns len and the bytes addr..addr+len, and changes
\* neither the storage nor the read-only flag.
C24_MemoryFrame ==
    [][/\ (dev.kind = "MemoryBlock" /\ ~dev.read_only
             /\ last'.op = "write" /\ last'.st = "Ok")
          => LET a == last'.addr
                 len == Len(last'.arg)
             IN /\ last'.n = len
                /\ Len(dev'.contents) = Len(dev.contents)
                /\ dev'.read_only = dev.read_only
                /\ \A i \in 0..(Len(dev.contents) - 1) :
                      dev'.contents[i + 1] =
                         IF i >= a /\ i < a + len THEN last'.arg[i - a + 1]
                         ELSE dev.contents[i + 1]
       /\ (dev.kind = "MemoryBlock" /\ last'.op = "read" /\ last'.st = "Ok")
          => LET a == last'.addr
                 len == Len(last'.arg)
             IN /\ last'.n = len
                /\ Len(last'.buf) = len
                /\ \A i \in 0..(len - 1) : last'.buf[i + 1] = dev.contents[a + i + 1]
                /\ dev' = dev]_vars

\* four bytes were written at 1 into a block of zeros, and read back
C24_Witness ==
    /\ dev.kind = "MemoryBlock" /\ ~dev.read_only /\ nops = 2
    /\ last.op = "read" /\ last.addr = 1 /\ last.n = 4 /\ last.buf = <<1, 2, 3, 4>>
    /\ dev.contents = <<0, 1, 2, 3, 4>> \o Zeros(MemLen - 5)

---------------------------------------------------------------------------
(* The typed accessors on devices whose raw calls transfer nothing          *)

\* the bus of test_dynamic_system and its Output on its own
ShortDevices == {TestBus, Output_new}

\* an address of the memory, one of the output and one in no range
ShortAddrs == {0, OutRangeStart, OutRangeEnd}

InitShort ==
    /\ dev \in ShortDevices
    /\ ref = NoDev
    /\ last = NoCall
    /\ nops = 0
    /\ NoCpuRun

\* typed reads at every address, typed writes to the output and to the
\* address in no range
NextShort ==
    \/ \E acc \in Accessors : \E addr \in ShortAddrs : DoTypedRead(acc, addr)
    \/ \E acc \in Accessors : \E addr \in ShortAddrs \ {0}, v \in Values(acc.w) :
          DoTypedWrite(acc, addr, v)

SpecShort == InitShort /\ [][NextShort]_vars

\* the bytes a typed write of width w hands to the raw write
BytesOf(w, order, val) ==
    CASE w = 1 -> val
      [] w > 1 /\ order = "Big" -> to_be_bytes(val)
      [] w > 1 /\ order = "Little" -> to_le_bytes(val)

\* the value a typed read of width w assembles from its buffer
ValueOf(w, order, buf) ==
    CASE w = 1 -> <<buf[1]>>
      [] w > 1 /\ order = "Big" -> from_be_bytes(buf)
      [] w > 1 /\ order = "Little" -> from_le_bytes(buf)

\* C21: the typed accessors ignore the transferred count.  When the raw
\* read into a buffer of W/8 zero bytes returns Ok(n) with n < W/8, the typed
\* read returns Ok with the value of that buffer, whose bytes from n on are
\* 0; when the raw write of the W/8 bytes of the value returns Ok(n) with
\* n < W/8, the typed write returns Ok(()).
C21_CountIgnored ==
    [][/\ (last'.op = "tread")
          => LET raw == BusAccess_read(dev, last'.now, last'.addr, Zeros(last'.w))
             IN (raw.st = "Ok" /\ raw.n < last'.w)
                => /\ last'.st = "Ok"
                   /\ last'.val = ValueOf(last'.w, last'.order, raw.buf)
                   /\ \A i \in (raw.n + 1)..last'.w : raw.buf[i] = 0
       /\ (last'.op = "twrite")
          => LET raw == BusAccess_write(dev, last'.now, last'.addr,
                                        BytesOf(last'.w, last'.order, last'.val))
             IN (raw.st = "Ok" /\ raw.n < last'.w)
                => /\ last'.st = "Ok" /\ last'.err = NoErr]_vars

\* read_beu32 at the first address of the output, whose read returns Ok(0),
\* returned Ok(0), as the second call on the bus
C21_Witness ==
    /\ dev = TestBus /\ nops = 2
    /\ last.op = "tread" /\ last.w = 4 /\ last.order = "Big" /\ ~last.param
    /\ last.addr = OutRangeStart
    /\ last.st = "Ok" /\ last.val = <<0, 0>>
    /\ \E i \in 1..Len(last.log) : last.log[i].ev = "read" /\ last.log[i].who = "Output"

===========================================================================
